---- MODULE Spec2Model ----
(***************************************************************************)
(* chopper: a wireless channel hopper (src/chopper.go).                    *)
(*                                                                         *)
(* The module models main() as a state machine (the main goroutine, the    *)
(* interrupt listener goroutine, the time.AfterFunc timer goroutine and    *)
(* the environment: operator signals, the wifi/netlink collaborators), and *)
(* the two pure functions parseChannelsString and channelToFrequency as    *)
(* operators.                                                              *)
(*                                                                         *)
(* A string is a sequence of one-character strings: "1,5" is               *)
(* <<"1", ",", "5">>.                                                      *)
(***************************************************************************)
EXTENDS Integers, Sequences, FiniteSets, TLC

VARIABLES
    \* ---- command line (set by flag.Parse, chopper.go:144-150)
    showHelp,        \* --help
    showVersion,     \* --version
    interfaceName,   \* --interface
    channelsString,  \* --channels
    timeoutPassed,   \* isFlagPassed("timeout")
    timeout,         \* --timeout
    delay,           \* --delay, in milliseconds
    \* ---- main goroutine
    pc,              \* position of main()
    channels,        \* the channel list (chopper.go:184-187)
    idx,             \* the hop cursor (chopper.go:212)
    data,            \* target frequency marshalled for the current tick
    socket,          \* nlSocket: "none", "open" or "closed"
    exitStatus,      \* process exit status, -1 while the process runs
    exitSite,        \* which exit the process took
    stderrChannel,   \* channel printed by "Cannot set channel %v", 0 if none
    iface,           \* the interface checkMonitorInterface returned
    family,          \* nl80211Family: "none" until GetFamily resolved it
    err,             \* nlSocket.Execute returned an error (chopper.go:250)
    \* ---- termination controller
    running,         \* the package-level flag (chopper.go:38)
    notified,        \* signal.Notify(quit, os.Interrupt) has been called
    quit,            \* number of signals buffered in the quit channel
    lpc,             \* position of the listener goroutine (chopper.go:162-165)
    tpc,             \* position of the timer goroutine (chopper.go:179-181)
    \* ---- history
    sent,            \* frequencies of the commands handed to nlSocket.Execute
    sentAtStop,      \* Len(sent) when running was set to false, -1 before
    pcAtStop,        \* main's position when running was set to false
    interrupted,     \* the operator has sent SIGINT
    \* ---- harness applying the pure functions to arbitrary arguments
    fnChannel,       \* argument of channelToFrequency
    fnFreq,          \* its result, -1 before the call
    fnInput,         \* argument of parseChannelsString
    fnParsed,        \* its result
    fnErr,           \* the error it returned
    fnDone           \* the calls already made

vars == <<showHelp, showVersion, interfaceName, channelsString, timeoutPassed,
          timeout, pc, channels, idx, data, socket, exitStatus, exitSite,
          stderrChannel, iface, family, err, running, notified, quit, lpc,
          tpc, sent, sentAtStop, pcAtStop, interrupted, delay, fnChannel,
          fnFreq, fnInput, fnParsed, fnErr, fnDone>>

mainVars == <<showHelp, showVersion, interfaceName, channelsString,
              timeoutPassed, timeout, pc, channels, idx, data, socket,
              exitStatus, exitSite, stderrChannel, iface, family, err,
              running, notified, quit, lpc, tpc, sent, sentAtStop, pcAtStop,
              interrupted, delay>>

fnVars == <<fnChannel, fnFreq, fnInput, fnParsed, fnErr, fnDone>>

(***************************************************************************)
(* Bounds of the model.                                                    *)
(***************************************************************************)
\* longest --channels string enumerated over Alphabet in the program model
MaxArgLen == 2
\* longest input string enumerated over Alphabet for parseChannelsString
MaxInputLen == 3
\* channelToFrequency is applied to every integer in -MaxChannel..MaxChannel
MaxChannel == 20
\* the hop loop is followed for MaxLaps full passes over the list, plus one tick
MaxLaps == 1

(***************************************************************************)
(* Strings.                                                                *)
(***************************************************************************)
Digits == {"0", "1", "2", "3", "4", "5", "6", "7", "8", "9"}

DigitVal(c) ==
    CASE c = "0" -> 0 [] c = "1" -> 1 [] c = "2" -> 2 [] c = "3" -> 3
      [] c = "4" -> 4 [] c = "5" -> 5 [] c = "6" -> 6 [] c = "7" -> 7
      [] c = "8" -> 8 [] c = "9" -> 9

\* the characters the enumerated inputs are made of: three digits, the
\* separator, and a character the regular expression deletes
Alphabet == {"0", "1", "5", ",", "a"}

StringsUpTo(n) == UNION {[1..k -> Alphabet] : k \in 0..n}

\* inputs of chopper_test.go:25-76 and inputs around the 32-bit limit
TestInputs ==
    { <<"1", ",", "2", ",", "3">>,
      <<"0">>,
      <<"1", ",", ",">>,
      <<",", ",", "3">>,
      <<"a", "s", "d", "1", ",", "2", ",", "3">>,
      <<"1", "a", "s", "d", ",", "2", ",", "3">>,
      <<"1", "a", ",", "s", "d", "2", ",", "3">>,
      <<",", ",">>,
      <<"1", " ", "2", " ", "3">> }

WideInputs ==
    { <<"2", "1", "4", "7", "4", "8", "3", "6", "4", "7">>,
      <<"2", "1", "4", "7", "4", "8", "3", "6", "4", "8">>,
      <<"0", "0", "2", "1", "4", "7", "4", "8", "3", "6", "4", "7">>,
      <<"7", ",", "9", "9", "9", "9", "9", "9", "9", "9", "9", "9", "9", ",", "1", "4">>,
      <<"-", "3", ",", "1", "4", ",", "1", "5", ",", "0", "0", "7">> }

\* channelToFrequency without the special case of channel 14
channelToFrequencyLinear(channel) ==
    IF channel <= 0 THEN 0
    ELSE IF channel <= 14 THEN 2407 + channel * 5
    ELSE 0

(***************************************************************************)
(* channelToFrequency, chopper.go:83-96.                                   *)
(***************************************************************************)
channelToFrequency(channel) ==
    IF channel <= 0 THEN 0
    ELSE IF channel = 14 THEN 2484
    ELSE IF channel < 14 THEN 2407 + channel * 5
    ELSE 0

(***************************************************************************)
(* parseChannelsString, chopper.go:98-129.                                 *)
(***************************************************************************)
\* the replacement with the pattern "[^0-9]+", which deletes the commas too
ReplaceAllStringNoComma(input) ==
    SelectSeq(input, LAMBDA c : c \in Digits)

\* reg.ReplaceAllString(input, "") with reg = "[^0-9,]+": every maximal run
\* of characters other than ASCII digits and commas is replaced by ""
ReplaceAllString(input) ==
    SelectSeq(input, LAMBDA c : c \in Digits \/ c = ",")

\* strings.Split(s, ","): the substrings between the commas, n+1 of them
\* for n commas, empty ones included
RECURSIVE SplitFrom(_, _, _)
SplitFrom(s, i, cur) ==
    IF i > Len(s) THEN <<cur>>
    ELSE IF s[i] = "," THEN <<cur>> \o SplitFrom(s, i + 1, <<>>)
    ELSE SplitFrom(s, i + 1, Append(cur, s[i]))

Split(s) == SplitFrom(s, 1, <<>>)

MaxInt32 == 2147483647

\* strconv.ParseInt(part, 10, 32) on a non-empty string of digits: the value
\* and err = nil, or err # nil (ErrRange, with the value clamped to 2^31 - 1)
\* when the value exceeds 2^31 - 1. The digits are accumulated as strconv
\* does, the range tested before each multiplication so that no intermediate
\* value exceeds 2^31 - 1.
RECURSIVE DecimalValue(_, _, _)
DecimalValue(part, i, acc) ==
    IF i > Len(part) THEN [value |-> acc, err |-> FALSE]
    ELSE LET d == DigitVal(part[i])
         IN  IF acc > (MaxInt32 - d) \div 10
               THEN [value |-> MaxInt32, err |-> TRUE]
               ELSE DecimalValue(part, i + 1, acc * 10 + d)

\* the range error of ParseInt dropped: the clamped value is returned as a
\* success
ParseIntIgnoresRange(part) ==
    [value |-> DecimalValue(part, 1, 0).value, err |-> FALSE]

ParseInt(part) == DecimalValue(part, 1, 0)

\* the loop without the test "value == 0"
RECURSIVE ParseLoopKeepsZero(_, _, _)
ParseLoopKeepsZero(parts, i, ret) ==
    IF i > Len(parts) THEN ret
    ELSE IF parts[i] = <<>> THEN ParseLoopKeepsZero(parts, i + 1, ret)
    ELSE LET r == DecimalValue(parts[i], 1, 0)
         IN  IF r.err THEN ParseLoopKeepsZero(parts, i + 1, ret)
             ELSE ParseLoopKeepsZero(parts, i + 1, Append(ret, r.value))

\* the loop of chopper.go:109-126 from part number i on, ret the result so far
RECURSIVE ParseLoop(_, _, _)
ParseLoop(parts, i, ret) ==
    IF i > Len(parts) THEN ret
    ELSE IF parts[i] = <<>> THEN ParseLoop(parts, i + 1, ret)
    ELSE LET r == ParseInt(parts[i])
         IN  IF r.err THEN ParseLoop(parts, i + 1, ret)
             ELSE IF r.value = 0 THEN ParseLoop(parts, i + 1, ret)
             ELSE ParseLoop(parts, i + 1, Append(ret, r.value))

parseChannelsString(input) ==
    LET processedString == ReplaceAllString(input)
    IN  ParseLoop(Split(processedString), 1, <<>>)

\* chopper.go:102-105: regexp.Compile fails; the pattern is a constant that
\* compiles
CompileError == FALSE

\* the error parseChannelsString returns with its result (chopper.go:104, 128)
parseChannelsStringErr(input) == CompileError

(***************************************************************************)
(* The harness: the pure functions applied to arguments drawn in Init.     *)
(***************************************************************************)
CallChannelToFrequency ==
    /\ "freq" \notin fnDone
    /\ fnFreq' = channelToFrequency(fnChannel)
    /\ fnDone' = fnDone \cup {"freq"}
    /\ UNCHANGED <<fnChannel, fnInput, fnParsed, fnErr>>
    /\ UNCHANGED mainVars

CallParseChannelsString ==
    /\ "parse" \notin fnDone
    /\ fnParsed' = parseChannelsString(fnInput)
    /\ fnErr' = parseChannelsStringErr(fnInput)
    /\ fnDone' = fnDone \cup {"parse"}
    /\ UNCHANGED <<fnChannel, fnFreq, fnInput>>
    /\ UNCHANGED mainVars

(***************************************************************************)
(* The environment of main().                                              *)
(***************************************************************************)
NoIface == [Name |-> "", Type |-> "none", Index |-> 0]

\* what client.Interfaces() may return (chopper.go:59)
InterfaceLists ==
    { <<>>,
      <<[Name |-> "wlan0", Type |-> "monitor", Index |-> 3]>>,
      <<[Name |-> "wlan0", Type |-> "station", Index |-> 3]>>,
      <<[Name |-> "eth0", Type |-> "monitor", Index |-> 2],
        [Name |-> "wlan0", Type |-> "monitor", Index |-> 3]>>,
      <<[Name |-> "wlan1", Type |-> "monitor", Index |-> 4]>> }

\* the values of --channels the program is started with
ProgramArgs == StringsUpTo(MaxArgLen) \cup TestInputs \cup WideInputs

\* capacity of the quit channel, make(chan os.Signal, 1)
QuitCap == 1

\* exit status of a process killed by SIGINT (128 + signal number)
KilledBySigint == 130

(***************************************************************************)
(* checkMonitorInterface, chopper.go:52-81.                                *)
(* newErr: wifi.New() failed; listErr: client.Interfaces() failed;         *)
(* interfaces: the list it returned.                                       *)
(***************************************************************************)
\* checkMonitorInterface without the test of the interface type
checkMonitorInterfaceAnyType(name, newErr, listErr, interfaces) ==
    IF newErr THEN [panic |-> TRUE, err |-> "wifi.New", iface |-> NoIface]
    ELSE IF listErr THEN [panic |-> FALSE, err |-> "interfaces", iface |-> NoIface]
    ELSE LET found == {i \in 1..Len(interfaces) : interfaces[i].Name = name}
         IN  IF found = {}
               THEN [panic |-> FALSE, err |-> "cannot find", iface |-> NoIface]
             ELSE [panic |-> FALSE, err |-> "",
                   iface |-> interfaces[CHOOSE i \in found : \A j \in found : i <= j]]

RECURSIVE FindInterface(_, _, _)
FindInterface(interfaces, name, i) ==
    IF i > Len(interfaces) THEN NoIface
    ELSE IF interfaces[i].Name = name THEN interfaces[i]
    ELSE FindInterface(interfaces, name, i + 1)

checkMonitorInterface(name, newErr, listErr, interfaces) ==
    IF newErr THEN [panic |-> TRUE, err |-> "wifi.New", iface |-> NoIface]
    ELSE IF listErr THEN [panic |-> FALSE, err |-> "interfaces", iface |-> NoIface]
    ELSE LET ifaceFound == FindInterface(interfaces, name, 1)
         IN  IF ifaceFound = NoIface
               THEN [panic |-> FALSE, err |-> "cannot find", iface |-> NoIface]
             ELSE IF ifaceFound.Type # "monitor"
               THEN [panic |-> FALSE, err |-> "not in monitor mode", iface |-> NoIface]
             ELSE [panic |-> FALSE, err |-> "", iface |-> ifaceFound]

(***************************************************************************)
(* main(), chopper.go:142-266.                                             *)
(***************************************************************************)
DefaultChannels == <<1, 8, 2, 9, 3, 10, 4, 11, 5, 12, 6, 13, 7>>

Alive == pc # "exited"

\* the positions of main() inside "for running { ... }"
LoopPcs == {"loop", "marshal", "execute", "await", "advance", "sleep"}

InLoop == pc \in LoopPcs

\* os.Exit(status), a panic, a fatal signal or the return of main: the
\* process is gone, and its goroutines with it
Exit(status, site) ==
    /\ pc' = "exited"
    /\ exitStatus' = status
    /\ exitSite' = site

inputVars == <<showHelp, showVersion, interfaceName, channelsString,
               timeoutPassed, timeout, delay>>

\* the termination controller's variables
stopVars == <<running, notified, quit, lpc, tpc, sentAtStop, pcAtStop,
             interrupted>>

\* what no action of the program touches
fixedVars == <<inputVars, fnVars>>

\* chopper.go:152-158
ShowHelpOrVersion ==
    /\ pc = "flags"
    /\ showHelp \/ showVersion
    /\ Exit(0, IF showHelp THEN "help" ELSE "version")
    /\ UNCHANGED <<channels, idx, data, socket, stderrChannel, iface, family,
                   err, sent>>
    /\ UNCHANGED <<stopVars, fixedVars>>

\* chopper.go:160-165: the quit channel, signal.Notify and the listener
StartListener ==
    /\ pc = "flags"
    /\ ~showHelp /\ ~showVersion
    /\ notified' = TRUE
    /\ lpc' = "recv"
    /\ pc' = "checkargs"
    /\ UNCHANGED <<channels, idx, data, socket, exitStatus, exitSite,
                   stderrChannel, iface, family, err, sent>>
    /\ UNCHANGED <<running, quit, tpc, sentAtStop, pcAtStop, interrupted,
                   fixedVars>>

\* chopper.go:168-174
CheckArguments ==
    /\ pc = "checkargs"
    /\ IF interfaceName = ""
         THEN Exit(1, "usage")
         ELSE pc' = "timeout" /\ UNCHANGED <<exitStatus, exitSite>>
    /\ UNCHANGED <<channels, idx, data, socket, stderrChannel, iface, family,
                   err, sent>>
    /\ UNCHANGED <<stopVars, fixedVars>>

\* the test of the timeout inverted: the timer armed for a negative timeout
TimerArmedNegative == timeoutPassed /\ timeout < 0

\* the test "timeout < 0": a timeout of 0 arms a timer that fires at once
TimerArmedAtZero == timeoutPassed /\ ~(timeout < 0)

\* chopper.go:175-178: the timer is armed
TimerArmed == timeoutPassed /\ ~(timeout <= 0)

\* chopper.go:175-183
ConfigureTimeout ==
    /\ pc = "timeout"
    /\ tpc' = IF TimerArmed THEN "armed" ELSE tpc
    /\ pc' = "parse"
    /\ UNCHANGED <<channels, idx, data, socket, exitStatus, exitSite,
                   stderrChannel, iface, family, err, sent>>
    /\ UNCHANGED <<running, notified, quit, lpc, sentAtStop, pcAtStop,
                   interrupted, fixedVars>>

\* the substitution with the test len(channels) < 0, which never holds
ChannelListNeverDefault(parsed) ==
    IF Len(parsed) < 0 THEN DefaultChannels ELSE parsed

\* chopper.go:185-187
ChannelList(parsed) ==
    IF Len(parsed) <= 0 THEN DefaultChannels ELSE parsed

\* chopper.go:184-187
ParseChannels ==
    /\ pc = "parse"
    /\ channels' = ChannelList(parseChannelsString(channelsString))
    /\ pc' = "checkiface"
    /\ UNCHANGED <<idx, data, socket, exitStatus, exitSite, stderrChannel,
                   iface, family, err, sent>>
    /\ UNCHANGED <<stopVars, fixedVars>>

\* chopper.go:190-194
CheckInterface ==
    /\ pc = "checkiface"
    /\ \E newErr \in BOOLEAN, listErr \in BOOLEAN, interfaces \in InterfaceLists :
         LET r == checkMonitorInterface(interfaceName, newErr, listErr, interfaces)
         IN  IF r.panic
               THEN Exit(2, "panic") /\ UNCHANGED iface
             ELSE IF r.err # ""
               THEN Exit(1, r.err) /\ UNCHANGED iface
             ELSE /\ iface' = r.iface
                  /\ pc' = "dial"
                  /\ UNCHANGED <<exitStatus, exitSite>>
    /\ UNCHANGED <<channels, idx, data, socket, stderrChannel, family, err, sent>>
    /\ UNCHANGED <<stopVars, fixedVars>>

\* chopper.go:197-202
Dial ==
    /\ pc = "dial"
    /\ \E ok \in BOOLEAN :
         IF ok
           THEN /\ socket' = "open"
                /\ pc' = "family"
                /\ UNCHANGED <<exitStatus, exitSite>>
           ELSE Exit(1, "dial") /\ UNCHANGED socket
    /\ UNCHANGED <<channels, idx, data, stderrChannel, iface, family, err, sent>>
    /\ UNCHANGED <<stopVars, fixedVars>>

\* the loop entered at its body, the condition tested after the first tick
GetFamilyEntersTick ==
    /\ pc = "family"
    /\ \E ok \in BOOLEAN :
         IF ok
           THEN /\ family' = "nl80211"
                /\ idx' = 0
                /\ pc' = "marshal"
                /\ UNCHANGED <<exitStatus, exitSite>>
           ELSE Exit(1, "family") /\ UNCHANGED <<family, idx>>
    /\ UNCHANGED <<channels, data, socket, stderrChannel, iface, err, sent>>
    /\ UNCHANGED <<stopVars, fixedVars>>

\* chopper.go:205-212
GetFamily ==
    /\ pc = "family"
    /\ \E ok \in BOOLEAN :
         IF ok
           THEN /\ family' = "nl80211"
                /\ idx' = 0
                /\ pc' = "loop"
                /\ UNCHANGED <<exitStatus, exitSite>>
           ELSE Exit(1, "family") /\ UNCHANGED <<family, idx>>
    /\ UNCHANGED <<channels, data, socket, stderrChannel, iface, err, sent>>
    /\ UNCHANGED <<stopVars, fixedVars>>

\* a loop that never reads the flag, "for true"
LoopConditionIgnoresFlag == TRUE

\* chopper.go:213: the loop condition, a plain load of the package variable.
\* The loop body calls into other packages, so the load is made anew at
\* every evaluation, and it returns the value last stored: the listener's
\* store (chopper.go:164) takes effect at the step ListenerSet.
LoopCondition == running

\* the hop loop is followed for this many ticks while running stays true
MaxTicks == MaxLaps * Len(channels) + 1

\* chopper.go:213 and 265-266: one evaluation of "for running"; when it is
\* false main returns, the deferred nlSocket.Close() runs, the process ends
LoopCheck ==
    /\ pc = "loop"
    /\ IF LoopCondition
         THEN /\ Len(sent) < MaxTicks
              /\ pc' = "marshal"
              /\ UNCHANGED <<socket, exitStatus, exitSite>>
         ELSE /\ socket' = "closed"
              /\ Exit(0, "return")
    /\ UNCHANGED <<channels, idx, data, stderrChannel, iface, family, err, sent>>
    /\ UNCHANGED <<stopVars, fixedVars>>

\* chopper.go:223: the frequency attribute of the command. The conversion
\* uint32() is exact on the range of channelToFrequency, 0..2484.
TargetFrequency == channelToFrequency(channels[idx + 1])

\* chopper.go:215-239
Marshal ==
    /\ pc = "marshal"
    /\ \E ok \in BOOLEAN :
         IF ok
           THEN /\ data' = TargetFrequency
                /\ pc' = "execute"
                /\ UNCHANGED <<exitStatus, exitSite>>
           ELSE Exit(1, "marshal") /\ UNCHANGED data
    /\ UNCHANGED <<channels, idx, socket, stderrChannel, iface, family, err, sent>>
    /\ UNCHANGED <<stopVars, fixedVars>>

\* chopper.go:242-250: the request goes out on the socket
Execute ==
    /\ pc = "execute"
    /\ sent' = Append(sent, data)
    /\ pc' = "await"
    /\ UNCHANGED <<channels, idx, data, socket, exitStatus, exitSite,
                   stderrChannel, iface, family, err>>
    /\ UNCHANGED <<stopVars, fixedVars>>

\* chopper.go:252: the channel named in the error message
FailedChannel == channels[idx + 1]

\* the error of Execute reported and the loop continued with the next channel
ExecuteReturnContinues ==
    /\ pc = "await"
    /\ \E ok \in BOOLEAN :
         /\ err' = ~ok
         /\ stderrChannel' = IF err' THEN FailedChannel ELSE stderrChannel
         /\ pc' = "advance"
         /\ UNCHANGED <<exitStatus, exitSite>>
    /\ UNCHANGED <<channels, idx, data, socket, iface, family, sent>>
    /\ UNCHANGED <<stopVars, fixedVars>>

\* chopper.go:250-255: Execute returns, with the acknowledgment or an error
ExecuteReturn ==
    /\ pc = "await"
    /\ \E ok \in BOOLEAN :
         /\ err' = ~ok
         /\ IF err'
              THEN /\ stderrChannel' = FailedChannel
                   /\ Exit(1, "execute")
              ELSE /\ pc' = "advance"
                   /\ UNCHANGED <<exitStatus, exitSite, stderrChannel>>
    /\ UNCHANGED <<channels, idx, data, socket, iface, family, sent>>
    /\ UNCHANGED <<stopVars, fixedVars>>

\* the wrap tested with > instead of >=
NextIndexWrapsLate ==
    IF idx + 1 > Len(channels) THEN 0 ELSE idx + 1

\* the wrap taken one element early, the last channel never visited
NextIndexWrapsEarly ==
    IF idx + 1 >= Len(channels) - 1 THEN 0 ELSE idx + 1

\* chopper.go:258-261: the cursor after idx++ and the wrap
NextIndex ==
    IF idx + 1 >= Len(channels) THEN 0 ELSE idx + 1

\* chopper.go:258-261
Advance ==
    /\ pc = "advance"
    /\ idx' = NextIndex
    /\ pc' = "sleep"
    /\ UNCHANGED <<channels, data, socket, exitStatus, exitSite, stderrChannel,
                   iface, family, err, sent>>
    /\ UNCHANGED <<stopVars, fixedVars>>

\* a sleep that the flag cuts short: main returns from inside the tick
SleepInterruptible ==
    /\ pc = "sleep"
    /\ IF running
         THEN pc' = "loop" /\ UNCHANGED <<socket, exitStatus, exitSite>>
         ELSE socket' = "closed" /\ Exit(0, "return")
    /\ UNCHANGED <<channels, idx, data, stderrChannel, iface, family, err, sent>>
    /\ UNCHANGED <<stopVars, fixedVars>>

\* chopper.go:264
Sleep ==
    /\ pc = "sleep"
    /\ pc' = "loop"
    /\ UNCHANGED <<channels, idx, data, socket, exitStatus, exitSite,
                   stderrChannel, iface, family, err, sent>>
    /\ UNCHANGED <<stopVars, fixedVars>>

(***************************************************************************)
(* The termination controller.                                             *)
(***************************************************************************)
\* what the goroutines and the operator leave alone in main's state
mainState == <<channels, idx, data, socket, stderrChannel, iface, family,
               err, sent>>

\* the operator sends SIGINT. Before signal.Notify (chopper.go:161) the
\* default disposition kills the process; after it the os/signal package
\* sends on quit without blocking and drops the signal when quit is full.
Interrupt ==
    /\ Alive
    /\ IF notified
         THEN /\ quit' = IF quit < QuitCap THEN quit + 1 ELSE quit
              /\ UNCHANGED <<pc, exitStatus, exitSite>>
         ELSE /\ Exit(KilledBySigint, "sigint")
              /\ UNCHANGED quit
    /\ interrupted' = TRUE
    /\ UNCHANGED <<running, notified, lpc, tpc, sentAtStop, pcAtStop>>
    /\ UNCHANGED <<mainState, fixedVars>>

\* chopper.go:163: <-quit
ListenerReceive ==
    /\ Alive
    /\ lpc = "recv"
    /\ quit > 0
    /\ quit' = quit - 1
    /\ lpc' = "set"
    /\ UNCHANGED <<running, notified, tpc, sentAtStop, pcAtStop, interrupted>>
    /\ UNCHANGED <<pc, exitStatus, exitSite, mainState, fixedVars>>

\* a listener that also rewinds the cursor of main
ListenerSetResetsCursor ==
    /\ Alive
    /\ lpc = "set"
    /\ running' = FALSE
    /\ idx' = 0
    /\ lpc' = "done"
    /\ sentAtStop' = IF running THEN Len(sent) ELSE sentAtStop
    /\ pcAtStop' = IF running THEN pc ELSE pcAtStop
    /\ UNCHANGED <<notified, quit, tpc, interrupted>>
    /\ UNCHANGED <<pc, exitStatus, exitSite, channels, data, socket,
                   stderrChannel, iface, family, err, sent, fixedVars>>

\* a listener that flips the flag on every signal, "for { <-quit; running =
\* !running }"
ListenerToggles ==
    /\ Alive
    /\ lpc = "set"
    /\ running' = ~running
    /\ lpc' = "recv"
    /\ sentAtStop' = IF running THEN Len(sent) ELSE sentAtStop
    /\ pcAtStop' = IF running THEN pc ELSE pcAtStop
    /\ UNCHANGED <<notified, quit, tpc, interrupted>>
    /\ UNCHANGED <<pc, exitStatus, exitSite, mainState, fixedVars>>

\* chopper.go:164-165: running = false, and the goroutine ends
ListenerSet ==
    /\ Alive
    /\ lpc = "set"
    /\ running' = FALSE
    /\ lpc' = "done"
    /\ sentAtStop' = IF running THEN Len(sent) ELSE sentAtStop
    /\ pcAtStop' = IF running THEN pc ELSE pcAtStop
    /\ UNCHANGED <<notified, quit, tpc, interrupted>>
    /\ UNCHANGED <<pc, exitStatus, exitSite, mainState, fixedVars>>

\* chopper.go:179: the duration has elapsed, the timer's function starts
TimerExpire ==
    /\ Alive
    /\ tpc = "armed"
    /\ tpc' = "send"
    /\ UNCHANGED <<running, notified, quit, lpc, sentAtStop, pcAtStop,
                   interrupted>>
    /\ UNCHANGED <<pc, exitStatus, exitSite, mainState, fixedVars>>

\* chopper.go:180: quit <- os.Interrupt, which blocks while quit is full
TimerSend ==
    /\ Alive
    /\ tpc = "send"
    /\ quit < QuitCap
    /\ quit' = quit + 1
    /\ tpc' = "done"
    /\ UNCHANGED <<running, notified, lpc, sentAtStop, pcAtStop, interrupted>>
    /\ UNCHANGED <<pc, exitStatus, exitSite, mainState, fixedVars>>

\* chopper.go:38, 164, 213: running is a plain bool, stored by the listener
\* and loaded by main with no mutex, no atomic operation and no channel
\* operation between the two goroutines after the listener has started
FlagSynchronized == FALSE

\* the listener is about to store running and main is about to load it, and
\* nothing orders the two accesses
DataRace ==
    /\ Alive
    /\ lpc = "set"
    /\ pc = "loop"
    /\ ~FlagSynchronized

(***************************************************************************)
(* Specifications.                                                         *)
(***************************************************************************)
InitMain ==
    /\ pc = "flags"
    /\ channels = <<>>
    /\ idx = 0
    /\ data = 0
    /\ socket = "none"
    /\ exitStatus = -1
    /\ exitSite = "none"
    /\ stderrChannel = 0
    /\ iface = NoIface
    /\ family = "none"
    /\ err = FALSE
    /\ running = TRUE
    /\ notified = FALSE
    /\ quit = 0
    /\ lpc = "none"
    /\ tpc = "off"
    /\ sent = <<>>
    /\ sentAtStop = -1
    /\ pcAtStop = "none"
    /\ interrupted = FALSE

\* chopper.go:148: the default of --delay
DefaultDelay == 200

\* the values of --delay: the default, and one below the warning threshold
\* of chopper.go:172
Delays == {DefaultDelay, 5}

\* the program, started with any command line
Init ==
    /\ showHelp \in BOOLEAN
    /\ showVersion \in BOOLEAN
    /\ interfaceName \in {"", "wlan0"}
    /\ channelsString \in ProgramArgs
    /\ timeoutPassed \in BOOLEAN
    /\ timeout \in IF timeoutPassed THEN {-1, 0, 2} ELSE {0}
    /\ delay \in Delays
    /\ InitMain
    /\ fnChannel = 0
    /\ fnFreq = -1
    /\ fnInput = <<>>
    /\ fnParsed = <<>>
    /\ fnErr = FALSE
    /\ fnDone = {"freq", "parse"}

MainStep ==
    \/ ShowHelpOrVersion
    \/ StartListener
    \/ CheckArguments
    \/ ConfigureTimeout
    \/ ParseChannels
    \/ CheckInterface
    \/ Dial
    \/ GetFamily
    \/ LoopCheck
    \/ Marshal
    \/ Execute
    \/ ExecuteReturn
    \/ Advance
    \/ Sleep

Next ==
    \/ MainStep
    \/ Interrupt
    \/ ListenerReceive
    \/ ListenerSet
    \/ TimerExpire
    \/ TimerSend

Spec == Init /\ [][Next]_vars

\* the values of --channels of the liveness specification: the default
\* list, and lists of one, two and three channels
LiveArgs ==
    { <<>>,
      <<"1", "5">>,
      <<"1", ",", "5">>,
      <<"1", ",", "2", ",", "3">> }

InitLive ==
    /\ showHelp \in BOOLEAN
    /\ showVersion \in BOOLEAN
    /\ interfaceName \in {"", "wlan0"}
    /\ channelsString \in LiveArgs
    /\ timeoutPassed \in BOOLEAN
    /\ timeout \in IF timeoutPassed THEN {-1, 0, 2} ELSE {0}
    /\ delay \in Delays
    /\ InitMain
    /\ fnChannel = 0
    /\ fnFreq = -1
    /\ fnInput = <<>>
    /\ fnParsed = <<>>
    /\ fnErr = FALSE
    /\ fnDone = {"freq", "parse"}

\* the main goroutine keeps running: a submitted command is answered, a
\* sleep returns; the listener goroutine is scheduled when it can run
SpecLive ==
    /\ InitLive
    /\ [][Next]_vars
    /\ WF_vars(MainStep)
    /\ WF_vars(ListenerReceive)
    /\ WF_vars(ListenerSet)

\* SpecLive, and the timer: its duration elapses, and its function is
\* scheduled when it can send
SpecTimer ==
    /\ SpecLive
    /\ WF_vars(TimerExpire)
    /\ WF_vars(TimerSend)

\* the pure functions applied to arbitrary arguments
InitPure ==
    /\ showHelp = FALSE
    /\ showVersion = FALSE
    /\ interfaceName = ""
    /\ channelsString = <<>>
    /\ timeoutPassed = FALSE
    /\ timeout = 0
    /\ delay = DefaultDelay
    /\ InitMain
    /\ fnChannel \in (-MaxChannel..MaxChannel) \cup {-MaxInt32, MaxInt32}
    /\ fnFreq = -1
    /\ fnInput \in StringsUpTo(MaxInputLen) \cup TestInputs \cup WideInputs
    /\ fnParsed = <<>>
    /\ fnErr = FALSE
    /\ fnDone = {}

NextPure ==
    \/ CallChannelToFrequency
    \/ CallParseChannelsString

SpecPure == InitPure /\ [][NextPure]_vars

(***************************************************************************)
(* Properties of channelToFrequency and parseChannelsString (SpecPure).    *)
(***************************************************************************)
\* C10: channelToFrequency returns 2407 + 5*c for every c in 1..13, 2484 for
\* c = 14, and 0 for every c <= 0 and every c >= 15 (a result for every
\* argument).
C10_FrequencyTable ==
    "freq" \in fnDone =>
        /\ (fnChannel \in 1..13 => fnFreq = 2407 + 5 * fnChannel)
        /\ (fnChannel = 14 => fnFreq = 2484)
        /\ (fnChannel <= 0 => fnFreq = 0)
        /\ (fnChannel >= 15 => fnFreq = 0)

C10_Witness ==
    /\ "freq" \in fnDone
    /\ fnChannel = 14
    /\ fnFreq = 2484

\* ---- the reading of parseChannelsString the specification gives, on
\* ---- numerals: a value is compared through its decimal digits, so that a
\* ---- token of any length has a value
DigitChar(d) ==
    CASE d = 0 -> "0" [] d = 1 -> "1" [] d = 2 -> "2" [] d = 3 -> "3"
      [] d = 4 -> "4" [] d = 5 -> "5" [] d = 6 -> "6" [] d = 7 -> "7"
      [] d = 8 -> "8" [] d = 9 -> "9"

\* the decimal numeral of n > 0, without leading zeros
RECURSIVE Numeral(_)
Numeral(n) ==
    IF n < 10 THEN <<DigitChar(n)>>
    ELSE Append(Numeral(n \div 10), DigitChar(n % 10))

Numerals(values) == [i \in 1..Len(values) |-> Numeral(values[i])]

\* the input without the characters that are neither digit nor comma
Kept(input) ==
    LET keep == {i \in 1..Len(input) : input[i] \in Digits \cup {","}}
        RECURSIVE Pick(_)
        Pick(i) == IF i > Len(input) THEN <<>>
                   ELSE IF i \in keep THEN <<input[i]>> \o Pick(i + 1)
                   ELSE Pick(i + 1)
    IN  Pick(1)

\* the tokens between the commas of s
RECURSIVE Tokens(_)
Tokens(s) ==
    IF \A i \in 1..Len(s) : s[i] # "," THEN <<s>>
    ELSE LET k == CHOOSE i \in 1..Len(s) :
                      s[i] = "," /\ \A j \in 1..(i - 1) : s[j] # ","
         IN  <<SubSeq(s, 1, k - 1)>> \o Tokens(SubSeq(s, k + 1, Len(s)))

\* a token without its leading zeros: empty for an empty or zero-valued token
RECURSIVE StripZeros(_)
StripZeros(tok) ==
    IF tok # <<>> /\ Head(tok) = "0" THEN StripZeros(Tail(tok)) ELSE tok

\* the numerals of the non-empty, non-zero tokens of the input, in order
ClaimedNumerals(input) ==
    LET toks == Tokens(Kept(input))
        stripped == [i \in 1..Len(toks) |-> StripZeros(toks[i])]
    IN  SelectSeq(stripped, LAMBDA t : t # <<>>)

\* numeral t (no leading zeros) denotes a value of at most 2^31 - 1
Int32Numeral == <<"2", "1", "4", "7", "4", "8", "3", "6", "4", "7">>

FitsInt32(t) ==
    \/ Len(t) < Len(Int32Numeral)
    \/ /\ Len(t) = Len(Int32Numeral)
       /\ \/ t = Int32Numeral
          \/ \E i \in 1..Len(t) :
                /\ DigitVal(t[i]) < DigitVal(Int32Numeral[i])
                /\ \A j \in 1..(i - 1) : t[j] = Int32Numeral[j]

\* C9 as stated: parseChannelsString returns exactly the values of the
\* non-empty, non-zero tokens left after deleting every character that is
\* neither digit nor comma and splitting on commas, in order, duplicates kept.
C9_AsStated ==
    "parse" \in fnDone => Numerals(fnParsed) = ClaimedNumerals(fnInput)

\* C9 amended: as above, except that a token whose value exceeds 2^31 - 1 is
\* dropped as well.
C9_ParseResult ==
    "parse" \in fnDone =>
        Numerals(fnParsed) = SelectSeq(ClaimedNumerals(fnInput), FitsInt32)

\* "1 2 3" gives [123]
C9_Witness ==
    /\ "parse" \in fnDone
    /\ fnInput = <<"1", " ", "2", " ", "3">>
    /\ fnParsed = <<123>>

(***************************************************************************)
(* Properties of the program (Spec).                                       *)
(***************************************************************************)
\* every character of s is a comma, a zero or a character the parser deletes
OnlyCommasZerosJunk(s) ==
    \A i \in 1..Len(s) : s[i] \in {",", "0"} \/ s[i] \notin Digits

\* C8: the channel list of the hop loop is the parser's result when that is
\* non-empty, and <<1,8,2,9,3,10,4,11,5,12,6,13,7>> when it is empty; it is
\* that list for an empty string, only commas, only zeros, only junk.
C8_ChannelListOrDefault ==
    InLoop =>
        LET parsed == parseChannelsString(channelsString)
        IN  /\ parsed # <<>> => channels = parsed
            /\ parsed = <<>> =>
                  channels = <<1, 8, 2, 9, 3, 10, 4, 11, 5, 12, 6, 13, 7>>
            /\ OnlyCommasZerosJunk(channelsString) =>
                  channels = <<1, 8, 2, 9, 3, 10, 4, 11, 5, 12, 6, 13, 7>>

C8_Witness ==
    /\ InLoop
    /\ channelsString = <<",", "0">>
    /\ channels = <<1, 8, 2, 9, 3, 10, 4, 11, 5, 12, 6, 13, 7>>

\* the number of commands acknowledged so far
Acked == IF pc = "await" \/ err THEN Len(sent) - 1 ELSE Len(sent)

\* C1: the k-th command submitted (k = 0, 1, ...) targets
\* channelToFrequency(L[k mod len(L)]); the cursor starts at 0, visits the
\* list in order and wraps to 0 after the last element.
C1_CursorPeriodic ==
    /\ \A k \in 0..(Len(sent) - 1) :
          sent[k + 1] = channelToFrequency(channels[(k % Len(channels)) + 1])
    /\ InLoop =>
          idx = (IF pc = "advance" THEN Acked - 1 ELSE Acked) % Len(channels)

\* the default list has been hopped through once and the cursor is back at 0
C1_Witness ==
    /\ Len(channels) = 13
    /\ Len(sent) = 14
    /\ sent[13] = 2442
    /\ sent[14] = 2412
    /\ pc = "sleep"
    /\ idx = 1

\* C2: in every state of the hop loop the channel list is non-empty and
\* 0 <= idx < len(channels), also where the failed channel is reported.
C2_CursorInRange ==
    (InLoop \/ exitSite \in {"marshal", "execute", "return"}) =>
        /\ Len(channels) > 0
        /\ 0 <= idx
        /\ idx < Len(channels)

\* the cursor is on the last element of a list of three
C2_Witness ==
    /\ pc = "marshal"
    /\ Len(channels) = 3
    /\ idx = 2

\* C3: no command with target frequency 0 is ever submitted.
C3_NoZeroFrequency ==
    \A k \in 1..Len(sent) : sent[k] # 0

\* C4: when the transport reports failure for a command, the process ends
\* with exit status 1 naming the channel under the cursor of that command,
\* the cursor is not advanced, and no command is submitted afterwards.
C4_FailureIsFatal ==
    /\ [](err =>
            /\ pc = "exited"
            /\ exitStatus = 1
            /\ stderrChannel = channels[idx + 1]
            /\ idx = (Len(sent) - 1) % Len(channels)
            /\ sent[Len(sent)] = channelToFrequency(stderrChannel))
    /\ [][err => (sent' = sent /\ idx' = idx /\ pc' = "exited")]_vars

\* the third command of a list of two failed
C4_Witness ==
    /\ err
    /\ exitSite = "execute"
    /\ Len(channels) = 2
    /\ Len(sent) = 3
    /\ idx = 0
    /\ stderrChannel = channels[1]

\* C5: once running is false while main is in the loop, main leaves the
\* loop, after at most one further command.
C5_StopsWithinOneTick ==
    /\ [](~running => Len(sent) <= sentAtStop + 1)
    /\ (~running /\ InLoop) ~>
          (pc = "exited" /\ exitSite \in {"return", "marshal", "execute"})

\* the flag was set inside a tick, before its command went out, and main
\* has left through the loop condition after that one command
C5_Witness ==
    /\ ~running
    /\ exitSite = "return"
    /\ Len(sent) = sentAtStop + 1

\* a stop trigger: an operator interrupt or the timer
StopTrigger == Interrupt \/ TimerExpire \/ TimerSend

\* C6: once running is false it stays false, and a further stop trigger
\* changes neither the flag nor anything of main: its position, its cursor,
\* the commands submitted.
C6_FlagMonotone ==
    [][~running =>
          /\ ~running'
          /\ StopTrigger => UNCHANGED <<running, pc, idx, sent, sentAtStop,
                                       lpc, mainState>>]_vars

\* after the flag was set a second interrupt sits in the quit channel and
\* the timer, fired as well, is blocked on it, while main is still in the loop
C6_Witness ==
    /\ ~running
    /\ lpc = "done"
    /\ quit = 1
    /\ tpc = "send"
    /\ InLoop

\* every startup check succeeded
StartupOk ==
    /\ interfaceName # ""
    /\ iface # NoIface
    /\ iface.Name = interfaceName
    /\ iface.Type = "monitor"
    /\ socket # "none"
    /\ family = "nl80211"

\* the exits of the failed startup checks
StartupExits ==
    {"usage", "interfaces", "cannot find", "not in monitor mode", "dial", "family"}

\* C7: no command is submitted unless all startup checks succeeded; a
\* failed check exits with status 1 and zero commands, before the loop.
C7_NoCommandBeforeStartup ==
    /\ (sent # <<>> \/ InLoop) => StartupOk
    /\ exitSite \in StartupExits => (exitStatus = 1 /\ sent = <<>> /\ ~StartupOk)

C7_Witness ==
    /\ exitSite = "not in monitor mode"
    /\ exitStatus = 1
    /\ sent = <<>>
    /\ socket = "none"

(***************************************************************************)
(* Further properties of parseChannelsString (SpecPure).                   *)
(***************************************************************************)
\* the tokens of the input whose value exceeds 2^31 - 1
OverflowTokens(input) ==
    SelectSeq(ClaimedNumerals(input), LAMBDA t : ~FitsInt32(t))

\* C11: a token whose value overflows signed 32 bits is skipped, and only
\* that token: the parse goes on, every other valid token is in the result,
\* in order, and no error is returned.
C11_OverflowSkipped ==
    ("parse" \in fnDone /\ OverflowTokens(fnInput) # <<>>) =>
        /\ ~fnErr
        /\ Len(fnParsed) =
              Len(ClaimedNumerals(fnInput)) - Len(OverflowTokens(fnInput))
        /\ \A i \in 1..Len(fnParsed) :
              /\ FitsInt32(Numeral(fnParsed[i]))
              /\ Numeral(fnParsed[i]) =
                    SelectSeq(ClaimedNumerals(fnInput), FitsInt32)[i]

\* "7,99999999999,14" gives [7, 14]
C11_Witness ==
    /\ "parse" \in fnDone
    /\ fnInput = <<"7", ",", "9", "9", "9", "9", "9", "9", "9", "9", "9", "9",
                   "9", ",", "1", "4">>
    /\ fnParsed = <<7, 14>>
    /\ ~fnErr

\* C19: every element parseChannelsString returns is a strictly positive
\* integer no greater than 2^31 - 1, so the only returned values that map to
\* frequency 0 are values >= 15.
C19_PositiveChannels ==
    "parse" \in fnDone =>
        \A i \in 1..Len(fnParsed) :
            /\ fnParsed[i] >= 1
            /\ fnParsed[i] <= MaxInt32
            /\ channelToFrequency(fnParsed[i]) = 0 => fnParsed[i] >= 15

\* "-3,14,15,007": the minus sign is deleted, 15 is kept
C19_Witness ==
    /\ "parse" \in fnDone
    /\ fnInput = <<"-", "3", ",", "1", "4", ",", "1", "5", ",", "0", "0", "7">>
    /\ fnParsed = <<3, 14, 15, 7>>

(***************************************************************************)
(* The timeout (SpecTimer, Spec).                                          *)
(***************************************************************************)
\* C12: with a positive timeout the timer sets the flag through the quit
\* channel, as an operator interrupt does: main leaves the loop without any
\* interrupt, and the timer's send changes the state exactly as a delivered
\* interrupt would.
C12_TimeoutStops ==
    /\ (timeoutPassed /\ timeout > 0 /\ InLoop) ~>
          (pc = "exited" /\ exitSite \in {"return", "marshal", "execute"})
    /\ [][TimerSend =>
             /\ notified
             /\ quit' = quit + 1
             /\ UNCHANGED <<running, lpc, pc, exitStatus, exitSite, mainState>>]_vars
    /\ [][running # running' => (lpc = "set" /\ lpc' = "done")]_vars

\* the loop was left through its condition, and no interrupt was ever sent
C12_Witness ==
    /\ timeoutPassed
    /\ timeout > 0
    /\ ~interrupted
    /\ tpc = "done"
    /\ ~running
    /\ exitSite = "return"
    /\ sent # <<>>

\* no timeout was passed, or one that is zero or negative
NoTimeout == ~timeoutPassed \/ timeout <= 0

\* C13: without a timeout, or with a timeout <= 0, no timer is armed; until
\* the operator interrupts, running stays true, the loop is not left through
\* its condition, and the next step of main is always possible.
C13_NoTimerWithoutTimeout ==
    NoTimeout =>
        /\ tpc = "off"
        /\ ~interrupted =>
              /\ running
              /\ quit = 0
              /\ lpc \in {"none", "recv"}
              /\ exitSite # "return"
              /\ (InLoop /\ (pc = "loop" => Len(sent) < MaxTicks)) =>
                    ENABLED MainStep
        /\ exitSite = "return" => (interrupted /\ ~running /\ lpc = "done")

\* --timeout 0, no interrupt: a full lap and one more tick have been made
C13_Witness ==
    /\ timeoutPassed
    /\ timeout = 0
    /\ ~interrupted
    /\ running
    /\ Len(sent) = Len(channels) + 1
    /\ pc = "sleep"

(***************************************************************************)
(* Concurrency and resources (Spec).                                       *)
(***************************************************************************)
\* C14: the listener's write of the flag and the loop's read of it are
\* ordered by synchronization: no state is reachable in which an
\* unsynchronized write and read of the flag are concurrent.
C14_NoDataRace == ~DataRace

\* C15: the socket is open in every state of the hop loop, and after every
\* exit that follows its opening, normal or fatal, the program has closed it.
C15_SocketReleased ==
    /\ InLoop => socket = "open"
    /\ (pc = "exited" /\ socket # "none") => socket = "closed"

\* the positions of main inside a tick, after the loop condition
TickPcs == {"marshal", "execute", "await", "advance", "sleep"}

\* C16: the flag is read at the loop condition only. Inside a tick every step
\* of main is the next step of the tick whatever the flag is: the command is
\* submitted, its answer awaited, on success the cursor advanced, the delay
\* slept; main returns only from the loop condition, with the flag false.
C16_CooperativeCancel ==
    /\ [](pc \in TickPcs => ENABLED MainStep)
    /\ [][/\ (pc = "marshal" /\ pc' # pc) =>
                \/ pc' = "execute" /\ data' = channelToFrequency(channels[idx + 1])
                \/ exitSite' = "marshal"
          /\ (pc = "execute" /\ pc' # pc) =>
                (pc' = "await" /\ sent' = Append(sent, data))
          /\ (pc = "await" /\ pc' # pc) =>
                \/ pc' = "advance" /\ ~err'
                \/ exitSite' = "execute" /\ err'
          /\ (pc = "advance" /\ pc' # pc) =>
                (pc' = "sleep" /\ idx' = (idx + 1) % Len(channels))
          /\ (pc = "sleep" /\ pc' # pc) => pc' = "loop"
          /\ (pc = "loop" /\ pc' = "marshal") => running
          /\ (exitSite # "return" /\ exitSite' = "return") =>
                (pc = "loop" /\ ~running)]_vars

\* the flag was set at the start of a tick, before its command went out; the
\* command was submitted and acknowledged, the cursor advanced, and main sleeps
C16_Witness ==
    /\ ~running
    /\ pcAtStop = "marshal"
    /\ pc = "sleep"
    /\ Len(sent) = sentAtStop + 1
    /\ idx = 1

\* a step of the listener or of the timer
ControllerStep ==
    ListenerReceive \/ ListenerSet \/ TimerExpire \/ TimerSend

\* C17: in the hop loop the channel list, the interface and the delay never
\* change; the cursor changes only in main's advance after an acknowledged
\* command; the flag changes only in the listener's store; the listener and
\* the timer touch nothing else of main, and main in the loop nothing of theirs.
C17_Frame ==
    [][/\ InLoop => UNCHANGED <<channels, iface, delay>>
       /\ idx' # idx => (pc = "advance" /\ pc' = "sleep" /\ ~err)
       /\ running' # running => (lpc = "set" /\ lpc' = "done")
       /\ ControllerStep =>
             UNCHANGED <<pc, exitStatus, exitSite, mainState, inputVars>>
       /\ (InLoop /\ pc' # pc) => UNCHANGED <<running, notified, quit, lpc, tpc>>]_vars

\* the cursor has advanced and the listener has stored the flag
C17_Witness ==
    /\ InLoop
    /\ idx = 2
    /\ ~running
    /\ lpc = "done"
    /\ tpc = "done"

\* the flag was set before the loop condition was first evaluated
EarlyStop ==
    /\ pcAtStop \in {"checkargs", "timeout", "parse", "checkiface", "dial",
                     "family", "loop"}
    /\ sentAtStop = 0

\* C18: the listener and the timer are armed before the interface check and
\* the transport setup, and a delivered signal stays in the quit channel until
\* the listener takes it; when the flag is set before the loop condition is
\* first evaluated, no command is submitted and the loop is left through its
\* condition.
C18_EarlyStopNotLost ==
    /\ pc \in {"checkiface", "dial", "family"} \cup LoopPcs =>
          /\ notified
          /\ lpc # "none"
          /\ (timeoutPassed /\ timeout > 0) => tpc # "off"
    /\ (interrupted /\ Alive) => (quit > 0 \/ lpc \in {"set", "done"})
    /\ EarlyStop =>
          /\ sent = <<>>
          /\ pc \notin TickPcs
          /\ exitSite \notin {"marshal", "execute"}
          /\ (pc = "exited" /\ family = "nl80211") =>
                (exitSite = "return" /\ exitStatus = 0)

\* the interrupt came while the socket was being dialed; main went through
\* the startup and left at the first evaluation of the loop condition
C18_Witness ==
    /\ pcAtStop = "dial"
    /\ exitSite = "return"
    /\ sent = <<>>
    /\ interrupted

====
